---- MODULE Spec2Model ----
(***************************************************************************)
(* process_file of the TDS Working Paper Tool (src/app.py): the per-sheet  *)
(* normalisation loop and the final concatenation, with the pandas         *)
(* operations it calls (label-based column selection, rename, dropna,      *)
(* boolean row filter, column assignment, concat) modelled by what they do *)
(* on small tables.                                                        *)
(*                                                                         *)
(* A cell is a record [k, s, n]: a text cell (k = "str"), a number         *)
(* (k = "num") or an empty cell (k = "null", pandas NaN / pd.NA).  Text is *)
(* kept as a TLA+ string in the state and spelled out as a sequence of     *)
(* characters (Chars) wherever the code looks inside it (strip, lower,     *)
(* split, substring search, numeric parsing).                              *)
(***************************************************************************)
EXTENDS Integers, Sequences, FiniteSets, TLC

VARIABLES fixed_cols, tds_keywords_raw, workbook, template_cols, all_ledgers,
          last, pc, result

vars == <<fixed_cols, tds_keywords_raw, workbook, template_cols, all_ledgers,
          last, pc, result>>

----------------------------------------------------------------------------
(* Bounds of the model *)

\* Sheets read from one workbook.
MaxSheets == 2

\* Largest fixed-column count X tried (the widget allows 1..100).
MaxX == 4

\* The range of the "Number of fixed columns (X)" input.
MinFixedCols == 1
MaxFixedCols == 100

----------------------------------------------------------------------------
(* Text *)

UpperChars == <<"A","B","C","D","E","F","G","H","I","J","K","L","M",
                "N","O","P","Q","R","S","T","U","V","W","X","Y","Z">>
LowerChars == <<"a","b","c","d","e","f","g","h","i","j","k","l","m",
                "n","o","p","q","r","s","t","u","v","w","x","y","z">>
DigitChars == <<"0","1","2","3","4","5","6","7","8","9">>
Whitespace == {" ", "\t", "\n"}

\* The spelling of every text that occurs in a workbook, a keyword input or
\* a column label of the model.
Chars(s) ==
  CASE s = ""                    -> <<>>
    [] s = "Date"                -> <<"D","a","t","e">>
    [] s = " DATE "              -> <<" ","D","A","T","E"," ">>
    [] s = "Dated"               -> <<"D","a","t","e","d">>
    [] s = "Particulars"         -> <<"P","a","r","t","i","c","u","l","a","r","s">>
    [] s = "PARTICULARS"         -> <<"P","A","R","T","I","C","U","L","A","R","S">>
    [] s = "Amount"              -> <<"A","m","o","u","n","t">>
    [] s = "TDS"                 -> <<"T","D","S">>
    [] s = "TDS Payable A/c"     -> <<"T","D","S"," ","P","a","y","a","b","l","e"," ","A","/","c">>
    [] s = "Non-TDS Charges"     -> <<"N","o","n","-","T","D","S"," ","C","h","a","r","g","e","s">>
    [] s = "Purchase"            -> <<"P","u","r","c","h","a","s","e">>
    [] s = "Grand Total"         -> <<"G","r","a","n","d"," ","T","o","t","a","l">>
    [] s = "Opening GRAND TOTAL" -> <<"O","p","e","n","i","n","g"," ","G","R","A","N","D"," ","T","O","T","A","L">>
    [] s = "Sub Total"           -> <<"S","u","b"," ","T","o","t","a","l">>
    [] s = "7"                   -> <<"7">>
    [] s = "x"                   -> <<"x">>
    [] s = "Ledger_Amount"       -> <<"L","e","d","g","e","r","_","A","m","o","u","n","t">>
    [] s = "TDS_Amount"          -> <<"T","D","S","_","A","m","o","u","n","t">>
    [] s = "LedgerName"          -> <<"L","e","d","g","e","r","N","a","m","e">>
    [] s = "SheetA"              -> <<"S","h","e","e","t","A">>
    [] s = "SheetB"              -> <<"S","h","e","e","t","B">>
    [] s = "SheetC"              -> <<"S","h","e","e","t","C">>
    [] s = " , "                 -> <<" ",","," ">>
    [] s = " TDS Payable ,,Interest" ->
         <<" ","T","D","S"," ","P","a","y","a","b","l","e"," ",",",",",
           "I","n","t","e","r","e","s","t">>

PosIn(c, seq) ==
  IF \E i \in 1..Len(seq) : seq[i] = c
  THEN CHOOSE i \in 1..Len(seq) : seq[i] = c
  ELSE 0

\* The lower-case letter of each upper-case letter.
LowerOf == [c \in {UpperChars[i] : i \in 1..Len(UpperChars)} |-> LowerChars[PosIn(c, UpperChars)]]

\* str.lower(), one character.
LowerChar(c) == IF c \in DOMAIN LowerOf THEN LowerOf[c] ELSE c

\* str.lower()
Lower(t) == [i \in 1..Len(t) |-> LowerChar(t[i])]

\* str.strip(): leading and trailing whitespace removed.
Strip(t) ==
  LET keep == {i \in 1..Len(t) : t[i] \notin Whitespace}
  IN  IF keep = {} THEN <<>>
      ELSE LET a == CHOOSE i \in keep : \A j \in keep : i <= j
               b == CHOOSE i \in keep : \A j \in keep : i >= j
           IN  SubSeq(t, a, b)

\* needle in hay (Python's substring test).
Contains(hay, needle) ==
  \E i \in 0..(Len(hay) - Len(needle)) : SubSeq(hay, i + 1, i + Len(needle)) = needle

\* str.split(sep): the pieces between the separators, empty pieces kept.
RECURSIVE Split(_, _)
Split(t, sep) ==
  IF \E i \in 1..Len(t) : t[i] = sep
  THEN LET i == CHOOSE k \in 1..Len(t) : t[k] = sep /\ \A j \in 1..(k - 1) : t[j] # sep
       IN  <<SubSeq(t, 1, i - 1)>> \o Split(SubSeq(t, i + 1, Len(t)), sep)
  ELSE <<t>>

\* The decimal digits of a natural number, as str(int) writes them.
RECURSIVE Digits(_)
Digits(n) == IF n < 10 THEN <<DigitChars[n + 1]>>
             ELSE Digits(n \div 10) \o <<DigitChars[(n % 10) + 1]>>

\* The number a sequence of decimal digits denotes.
RECURSIVE DigitsValue(_)
DigitsValue(t) ==
  IF t = <<>> THEN 0
  ELSE 10 * DigitsValue(SubSeq(t, 1, Len(t) - 1)) + (PosIn(t[Len(t)], DigitChars) - 1)

----------------------------------------------------------------------------
(* Cells *)

StrCell(s) == [k |-> "str", s |-> s, n |-> 0]
NumCell(n) == [k |-> "num", s |-> "", n |-> n]
Null       == [k |-> "null", s |-> "", n |-> 0]

IsNull(c) == c.k = "null"

\* str(v) of a cell value: the text itself, the digits of a number, "nan".
PyStr(c) ==
  CASE c.k = "str"  -> Chars(c.s)
    [] c.k = "num"  -> Digits(c.n)
    [] c.k = "null" -> <<"n","a","n">>

\* pd.to_numeric(..., errors="coerce") of one cell: a number is itself, a
\* text that spells a number is that number, anything else is NaN.
ToNumeric(c) ==
  CASE c.k = "num"  -> c
    [] c.k = "null" -> Null
    [] c.k = "str"  ->
         LET t == Strip(Chars(c.s))
         IN  IF t # <<>> /\ \A i \in 1..Len(t) : PosIn(t[i], DigitChars) > 0
             THEN NumCell(DigitsValue(t))
             ELSE Null

Ledger_Amount == StrCell("Ledger_Amount")
TDS_Amount    == StrCell("TDS_Amount")
LedgerName    == StrCell("LedgerName")

----------------------------------------------------------------------------
(* Tables (pandas DataFrame): column labels, row labels (the index) and the *)
(* rows' values, one value per column position.                             *)

Frame(cols, idx, vals) == [columns |-> cols, index |-> idx, values |-> vals]

Min2(a, b) == IF a <= b THEN a ELSE b

Count(seq, x) == Cardinality({i \in 1..Len(seq) : seq[i] = x})

IsUnique(seq) == \A i, j \in 1..Len(seq) : seq[i] = seq[j] => i = j

\* The positions, ascending, of the columns labelled key.
PositionsOf(cols, key) ==
  SelectSeq([i \in 1..Len(cols) |-> i], LAMBDA i : cols[i] = key)

\* Index.get_indexer_for / get_indexer_non_unique: for each requested label
\* in turn, every position that carries it.
RECURSIVE Indexer(_, _)
Indexer(cols, keys) ==
  IF keys = <<>> THEN <<>>
  ELSE PositionsOf(cols, Head(keys)) \o Indexer(cols, Tail(keys))

\* The columns at the given positions.
Take(f, pos) ==
  Frame([i \in 1..Len(pos) |-> f.columns[pos[i]]],
        f.index,
        [r \in 1..Len(f.values) |-> [i \in 1..Len(pos) |-> f.values[r][pos[i]]]])

\* df[keys] and df.loc[:, keys] with a list of labels: selection by label.
GetItem(f, keys) == Take(f, Indexer(f.columns, keys))

\* df.rename(columns={old: new}): every column labelled old is relabelled.
Rename(f, old, new) ==
  Frame([i \in 1..Len(f.columns) |-> IF f.columns[i] = old THEN new ELSE f.columns[i]],
        f.index, f.values)

\* The rows whose mask entry is TRUE (boolean indexing).
KeepRows(f, mask) ==
  LET keep == SelectSeq([r \in 1..Len(f.values) |-> r], LAMBDA r : mask[r])
  IN  Frame(f.columns,
            [i \in 1..Len(keep) |-> f.index[keep[i]]],
            [i \in 1..Len(keep) |-> f.values[keep[i]]])

\* dropna(how="all"): rows with no value at all are dropped.
DropNaAll(f) ==
  KeepRows(f, [r \in 1..Len(f.values) |->
                 \E c \in 1..Len(f.values[r]) : ~IsNull(f.values[r][c])])

\* df[label] = column: every column already labelled so is overwritten,
\* otherwise a new last column is added.  col holds one value per row.
SetColumn(f, label, col) ==
  IF \E i \in 1..Len(f.columns) : f.columns[i] = label
  THEN Frame(f.columns, f.index,
             [r \in 1..Len(f.values) |->
                [i \in 1..Len(f.columns) |->
                   IF f.columns[i] = label THEN col[r] ELSE f.values[r][i]]])
  ELSE Frame(Append(f.columns, label), f.index,
             [r \in 1..Len(f.values) |-> Append(f.values[r], col[r])])

\* The labels of all the tables in order of first appearance, each once.
RECURSIVE UniqueLabels(_, _)
UniqueLabels(seen, rest) ==
  IF rest = <<>> THEN seen
  ELSE IF \E i \in 1..Len(seen) : seen[i] = Head(rest)
       THEN UniqueLabels(seen, Tail(rest))
       ELSE UniqueLabels(Append(seen, Head(rest)), Tail(rest))

RECURSIVE AllColumns(_)
AllColumns(frames) ==
  IF frames = <<>> THEN <<>> ELSE Head(frames).columns \o AllColumns(Tail(frames))

\* The column labels pd.concat gives the result: the first table's when all
\* tables carry the same labels, otherwise the union of the labels.
ConcatColumns(frames) ==
  IF \A i \in 1..Len(frames) : frames[i].columns = frames[1].columns
  THEN frames[1].columns
  ELSE UniqueLabels(<<>>, AllColumns(frames))

\* pd.concat raises InvalidIndexError when a table whose labels differ from
\* the result's has a duplicated label (it cannot be reindexed).
ConcatRaises(frames) ==
  \E i \in 1..Len(frames) :
     /\ frames[i].columns # ConcatColumns(frames)
     /\ ~IsUnique(frames[i].columns)

\* One table reindexed to the result's labels (a missing label gives NaN).
Reindexed(f, cols) ==
  IF f.columns = cols THEN f
  ELSE Frame(cols, f.index,
             [r \in 1..Len(f.values) |->
                [i \in 1..Len(cols) |->
                   IF PositionsOf(f.columns, cols[i]) = <<>> THEN Null
                   ELSE f.values[r][PositionsOf(f.columns, cols[i])[1]]]])

RECURSIVE ConcatRows(_, _)
ConcatRows(frames, cols) ==
  IF frames = <<>> THEN <<>>
  ELSE Reindexed(Head(frames), cols).values \o ConcatRows(Tail(frames), cols)

----------------------------------------------------------------------------
(* process_file, one sheet *)

date_text       == <<"d","a","t","e">>
particular_text == <<"p","a","r","t","i","c","u","l","a","r">>
grand_total     == <<"g","r","a","n","d"," ","t","o","t","a","l">>
tds_default     == <<"t","d","s">>

\* header_row_idx = None
NoneIdx == -1

\* tds_keywords: the comma-separated input, each piece stripped and
\* lowercased, empty pieces left out; ["tds"] when nothing is left.
tds_keywords(raw_text) ==
  LET pieces == Split(Chars(raw_text), ",")
      kept   == SelectSeq(pieces, LAMBDA k : Strip(k) # <<>>)
      clean  == [i \in 1..Len(kept) |-> Lower(Strip(kept[i]))]
  IN  IF clean = <<>> THEN <<tds_default>> ELSE clean

\* pd.read_excel(..., header=None): the sheet's grid as a table whose row
\* labels are 0, 1, ... (a grid here is the sequence of its rows).
RawFrame(grid) ==
  Frame(IF grid = <<>> THEN <<>> ELSE [c \in 1..Len(grid[1]) |-> NumCell(c - 1)],
        [r \in 1..Len(grid) |-> r - 1],
        grid)

\* raw.dropna(how="all").empty
RawIsEmpty(raw) == DropNaAll(raw).values = <<>> \/ raw.columns = <<>>

\* str(v).strip().lower() == "date"
IsDateCell(v) == Lower(Strip(PyStr(v))) = date_text

\* The scan of column 0 from row i on: the first row whose cell is "date".
RECURSIVE ScanFirstCol(_, _)
ScanFirstCol(raw, i) ==
  IF i >= Len(raw.values) THEN NoneIdx
  ELSE IF IsDateCell(raw.values[i + 1][1]) THEN i
       ELSE ScanFirstCol(raw, i + 1)

\* Mutant: the scan keeps the last "date" row instead of stopping at the first.
header_row_idx_last(raw) ==
  LET hits == {i \in 0..(Len(raw.values) - 1) : IsDateCell(raw.values[i + 1][1])}
  IN  IF hits = {} THEN NoneIdx ELSE CHOOSE i \in hits : \A j \in hits : j <= i

header_row_idx(raw) == ScanFirstCol(raw, 0)

\* header = raw.iloc[header_row_idx].tolist()
header(raw, h) == raw.values[h + 1]

\* Mutant: the slice starts at the header row itself (iloc[header_row_idx:]).
data_from_header_row(raw, h) ==
  DropNaAll(Frame(header(raw, h),
                  [r \in 1..(Len(raw.values) - h) |-> raw.index[h + r]],
                  [r \in 1..(Len(raw.values) - h) |-> raw.values[h + r]]))

\* data = raw.iloc[header_row_idx + 1:], labelled by the header, rows with
\* no value dropped.
data(raw, h) ==
  DropNaAll(Frame(header(raw, h),
                  [r \in 1..(Len(raw.values) - h - 1) |-> raw.index[h + 1 + r]],
                  [r \in 1..(Len(raw.values) - h - 1) |-> raw.values[h + 1 + r]]))

\* base_cols = data.columns[:fixed_cols]
base_cols(d, X) == SubSeq(d.columns, 1, Min2(X, Len(d.columns)))

\* base_data = data.loc[:, base_cols], then the label of the last fixed
\* column renamed to Ledger_Amount.
base_data(d, X) ==
  LET bc == base_cols(d, X)
  IN  Rename(GetItem(d, bc), bc[Len(bc)], Ledger_Amount)

\* "particular" in str(col).lower()
IsParticularsLabel(col) == Contains(Lower(PyStr(col)), particular_text)

\* The first column of base_data whose label contains "particular": its
\* position, 0 when there is none.
particulars_pos(cols) ==
  IF \E i \in 1..Len(cols) : IsParticularsLabel(cols[i])
  THEN CHOOSE i \in 1..Len(cols) :
         IsParticularsLabel(cols[i]) /\ \A j \in 1..(i - 1) : ~IsParticularsLabel(cols[j])
  ELSE 0

\* Truth value of a label in "if particulars_col:".
Truthy(c) == CASE c.k = "str" -> c.s # "" [] c.k = "num" -> c.n # 0 [] c.k = "null" -> TRUE

\* Whether the Grand Total filter is applied to this table.
HasParticulars(bd) ==
  particulars_pos(bd.columns) > 0 /\ Truthy(bd.columns[particulars_pos(bd.columns)])

\* base_data[particulars_col] is a table, not a column, when the label is
\* carried by several columns, and a table has no .str: AttributeError.
FilterRaises(bd) ==
  HasParticulars(bd) /\ Count(bd.columns, bd.columns[particulars_pos(bd.columns)]) > 1

\* Mutant: the test without .str.lower().
IsGrandTotal_case_sensitive(v) == Contains(PyStr(v), grand_total)

\* .astype(str).str.lower().str.contains("grand total") of one cell.
IsGrandTotal(v) == Contains(Lower(PyStr(v)), grand_total)

\* The rows left by the Grand Total filter.
GrandTotalFiltered(bd) ==
  IF HasParticulars(bd)
  THEN KeepRows(bd, [r \in 1..Len(bd.values) |->
                       ~IsGrandTotal(bd.values[r][particulars_pos(bd.columns)])])
  ELSE bd

\* The loop that adds every template column the table lacks, filled with NA.
RECURSIVE AddMissing(_, _)
AddMissing(bd, tcols) ==
  IF tcols = <<>> THEN bd
  ELSE IF \E i \in 1..Len(bd.columns) : bd.columns[i] = Head(tcols)
       THEN AddMissing(bd, Tail(tcols))
       ELSE AddMissing(SetColumn(bd, Head(tcols), [r \in 1..Len(bd.values) |-> Null]),
                       Tail(tcols))

\* Lock / align: the first table sets the template, a later one is given the
\* template's missing columns and then selected by the template's labels.
Aligned(bd, tmpl) ==
  IF ~tmpl.locked THEN bd ELSE GetItem(AddMissing(bd, tmpl.cols), tmpl.cols)

\* Mutant: every sheet's columns replace the template.
Locked_every_sheet(bd, tmpl) == [locked |-> TRUE, cols |-> bd.columns]

Locked(bd, tmpl) ==
  IF ~tmpl.locked THEN [locked |-> TRUE, cols |-> bd.columns] ELSE tmpl

\* any(kw in col_lower for kw in tds_keywords)
IsTdsLabel(col, kws) == \E i \in 1..Len(kws) : Contains(Lower(PyStr(col)), kws[i])

\* Mutant: only the fixed columns are searched.
tds_cols_fixed_only(d, kws) ==
  SelectSeq(base_cols(d, fixed_cols), LAMBDA col : IsTdsLabel(col, kws))

\* tds_cols: the labels of data.columns that match a keyword, in order.
tds_cols(d, kws) == SelectSeq(d.columns, LAMBDA col : IsTdsLabel(col, kws))

RECURSIVE SumNumeric(_)
SumNumeric(cells) ==
  IF cells = <<>> THEN 0
  ELSE (IF IsNull(ToNumeric(Head(cells))) THEN 0 ELSE ToNumeric(Head(cells)).n)
       + SumNumeric(Tail(cells))

\* tds_sum = data[tds_cols].apply(pd.to_numeric, errors="coerce").sum(axis=1):
\* for each row label of data, the sum of the selected cells, NaN skipped.
tds_sum(d, tcols) ==
  LET sel == GetItem(d, tcols)
  IN  [r \in 1..Len(sel.values) |-> NumCell(SumNumeric(sel.values[r]))]

\* The position in data of the row labelled i.
RowOf(d, i) == CHOOSE r \in 1..Len(d.index) : d.index[r] = i

\* base_data["TDS_Amount"] = tds_sum (aligned on the row labels), or pd.NA.
WithTdsAmount(bd, d, kws) ==
  LET tcols == tds_cols(d, kws)
  IN  IF tcols # <<>>
      THEN SetColumn(bd, TDS_Amount,
                     [r \in 1..Len(bd.index) |-> tds_sum(d, tcols)[RowOf(d, bd.index[r])]])
      ELSE SetColumn(bd, TDS_Amount, [r \in 1..Len(bd.index) |-> Null])

\* Mutant: every fragment is tagged with the workbook's first sheet name.
WithLedgerName_first_sheet(bd, sheet_name) ==
  SetColumn(bd, LedgerName, [r \in 1..Len(bd.index) |-> StrCell("SheetA")])

\* base_data["LedgerName"] = sheet_name
WithLedgerName(bd, sheet_name) ==
  SetColumn(bd, LedgerName, [r \in 1..Len(bd.index) |-> StrCell(sheet_name)])

\* What one iteration of the sheet loop does: the reason it skips the sheet,
\* the exception it raises, or the fragment it appends.
SheetOutcome(grid, X) ==
  LET raw == RawFrame(grid)
  IN  IF RawIsEmpty(raw) THEN "empty"
      ELSE IF header_row_idx(raw) = NoneIdx THEN "no_header"
      ELSE IF data(raw, header_row_idx(raw)).values = <<>> THEN "no_body"
      ELSE IF FilterRaises(base_data(data(raw, header_row_idx(raw)), X))
           THEN "raised"
      ELSE "appended"

Fragment(sheet_name, grid, tmpl, X, kws) ==
  LET raw == RawFrame(grid)
      d   == data(raw, header_row_idx(raw))
      bd  == Aligned(GrandTotalFiltered(base_data(d, X)), tmpl)
  IN  WithLedgerName(WithTdsAmount(bd, d, kws), sheet_name)

----------------------------------------------------------------------------
(* The workbooks and inputs tried *)

SheetNames == <<"SheetA", "SheetB", "SheetC">>

\* The keyword inputs: one that cleans to nothing (so ["tds"] is used) and
\* one that cleans to ["tds payable", "interest"].
KeywordInputs == {" , ", " TDS Payable ,,Interest"}

TitleRow == <<StrCell("Dated"), Null, NumCell(2024), Null>>

\* The tables' tops: the rows above the header row, and the header row.
Tops ==
  { << <<>>,         <<StrCell("Date"), StrCell("Particulars"), StrCell("Amount"),
                       StrCell("TDS Payable A/c")>> >>,
    << <<TitleRow>>, <<StrCell("Date"), StrCell("Particulars"), StrCell("Amount"),
                       StrCell("TDS Payable A/c")>> >>,
    << <<TitleRow>>, <<StrCell(" DATE "), StrCell("Amount"), StrCell("PARTICULARS"),
                       StrCell("Non-TDS Charges")>> >>,
    << <<>>,         <<StrCell("Date"), StrCell("Amount"), StrCell("TDS"), StrCell("TDS")>> >>,
    << <<>>,         <<StrCell("Date"), StrCell("Particulars"), StrCell("Amount"),
                       StrCell("Particulars")>> >>,
    << <<TitleRow>>, <<StrCell("Date"), StrCell("Particulars")>> >> }

BlankRow    == <<Null, Null, Null, Null>>
PurchaseRow == <<NumCell(1), StrCell("Purchase"), NumCell(100), NumCell(10)>>
GrandRow    == <<Null, StrCell("Grand Total"), NumCell(100), StrCell("x")>>
SubTotalRow == <<StrCell("Date"), StrCell("Sub Total"), StrCell("Opening GRAND TOTAL"), StrCell("7")>>

Bodies == { <<PurchaseRow, SubTotalRow, GrandRow>>, <<SubTotalRow, BlankRow, PurchaseRow>> }

\* A grid is rectangular: every row cut to the width of the header row.
Cut(rows, n) == [r \in 1..Len(rows) |-> SubSeq(rows[r], 1, n)]

LedgerGrids ==
  { Cut(top[1], Len(top[2])) \o <<top[2]>> \o Cut(body, Len(top[2])) :
      top \in Tops, body \in Bodies }

\* Sheets with nothing to read: no cell at all, only empty cells, no "Date"
\* cell in column 0, nothing but empty rows under the header.
UnusableGrids ==
  { <<>>,
    <<BlankRow, BlankRow>>,
    <<TitleRow, PurchaseRow>>,
    <<TitleRow, <<StrCell("Date"), StrCell("Particulars"), StrCell("Amount"), StrCell("TDS")>>,
      BlankRow>> }

Grids == LedgerGrids \cup UnusableGrids

----------------------------------------------------------------------------
(* process_file as a state machine: one step per sheet read, one to finish *)

NoTemplate == [locked |-> FALSE, cols |-> <<>>]

NoResult == [kind |-> "pending", columns |-> <<>>, values |-> <<>>, origin |-> <<>>]

NoLast == [outcome |-> "none", h |-> NoneIdx, base_columns |-> <<>>, tds_cols |-> <<>>]

Init ==
  /\ fixed_cols \in MinFixedCols..Min2(MaxX, MaxFixedCols)
  /\ tds_keywords_raw \in KeywordInputs
  /\ workbook = <<>>
  /\ template_cols = NoTemplate
  /\ all_ledgers = <<>>
  /\ last = NoLast
  /\ pc = "loop"
  /\ result = NoResult

\* The locals of the iteration that read grid, kept for the properties.
Locals(grid, outcome) ==
  LET raw == RawFrame(grid)
      h   == IF outcome = "empty" THEN NoneIdx ELSE header_row_idx(raw)
      ok  == outcome \in {"raised", "appended"}
  IN  [outcome      |-> outcome,
       h            |-> h,
       base_columns |-> IF ok THEN base_data(data(raw, h), fixed_cols).columns ELSE <<>>,
       tds_cols     |-> IF outcome = "appended"
                        THEN tds_cols(data(raw, h), tds_keywords(tds_keywords_raw))
                        ELSE <<>>]

\* One iteration of "for sheet_name in xls.sheet_names".
ProcessSheet(grid) ==
  /\ pc = "loop"
  /\ Len(workbook) < MaxSheets
  /\ LET sheet_name == SheetNames[Len(workbook) + 1]
         outcome    == SheetOutcome(grid, fixed_cols)
         raw        == RawFrame(grid)
         d          == data(raw, header_row_idx(raw))
     IN  /\ workbook' = Append(workbook, [name |-> sheet_name, grid |-> grid])
         /\ last' = Locals(grid, outcome)
         /\ IF outcome = "appended"
            THEN /\ template_cols' =
                      Locked(GrandTotalFiltered(base_data(d, fixed_cols)), template_cols)
                 /\ all_ledgers' =
                      Append(all_ledgers,
                             [sheet |-> Len(workbook) + 1,
                              frame |-> Fragment(sheet_name, grid, template_cols, fixed_cols,
                                                 tds_keywords(tds_keywords_raw))])
                 /\ UNCHANGED <<pc, result>>
            ELSE IF outcome = "raised"
            THEN /\ pc' = "raised"
                 /\ result' = [NoResult EXCEPT !.kind = "raised"]
                 /\ UNCHANGED <<template_cols, all_ledgers>>
            ELSE UNCHANGED <<template_cols, all_ledgers, pc, result>>
  /\ UNCHANGED <<fixed_cols, tds_keywords_raw>>

Frames(ledgers) == [i \in 1..Len(ledgers) |-> ledgers[i].frame]

RECURSIVE Origins(_)
Origins(ledgers) ==
  IF ledgers = <<>> THEN <<>>
  ELSE [r \in 1..Len(Head(ledgers).frame.index) |->
          <<Head(ledgers).sheet, Head(ledgers).frame.index[r]>>]
       \o Origins(Tail(ledgers))

\* final_df = pd.concat(all_ledgers, ignore_index=True)[final_cols]
final_df(ledgers, tmpl) ==
  LET frames == Frames(ledgers)
      cols   == ConcatColumns(frames)
      rows   == ConcatRows(frames, cols)
      whole  == Frame(cols, [r \in 1..Len(rows) |-> r - 1], rows)
  IN  GetItem(whole, tmpl.cols \o <<TDS_Amount, LedgerName>>)

\* The returned table; origin remembers, for each of its rows, the sheet and
\* the grid row it was read from (concat's ignore_index forgets them).
Table(df, origin) ==
  [kind |-> "table", columns |-> df.columns, values |-> df.values, origin |-> origin]

\* After the last sheet: None, the concatenated table, or concat's exception.
Finish ==
  /\ pc = "loop"
  /\ IF all_ledgers = <<>>
     THEN /\ pc' = "done"
          /\ result' = [NoResult EXCEPT !.kind = "None"]
     ELSE IF ConcatRaises(Frames(all_ledgers))
     THEN /\ pc' = "raised"
          /\ result' = [NoResult EXCEPT !.kind = "raised"]
     ELSE /\ pc' = "done"
          /\ result' = Table(final_df(all_ledgers, template_cols), Origins(all_ledgers))
  /\ UNCHANGED <<fixed_cols, tds_keywords_raw, workbook, template_cols, all_ledgers, last>>

Next ==
  \/ \E grid \in Grids : ProcessSheet(grid)
  \/ Finish

Spec == Init /\ [][Next]_vars

----------------------------------------------------------------------------
(* What the properties speak about, stated from the workbook that was read  *)
(* (positions in the grid), not from the tables the code builds.            *)

Grid(s) == workbook[s].grid

HasText(cell, text) == Contains(Lower(PyStr(cell)), text)

\* The rows (0-based) whose column-0 cell, as text, trimmed and lowercased,
\* is "date".
DateRows(g) ==
  {i \in 0..(Len(g) - 1) : Lower(Strip(PyStr(g[i + 1][1]))) = <<"d","a","t","e">>}

AllBlank(g) == \A r \in 1..Len(g) : \A c \in 1..Len(g[r]) : g[r][c].k = "null"

\* The non-empty rows strictly below row first.
RowsBelow(g, first) ==
  {i \in (first + 1)..(Len(g) - 1) : \E c \in 1..Len(g[i + 1]) : g[i + 1][c].k # "null"}

\* The keywords the two keyword inputs stand for.
ConfiguredKeywords ==
  IF tds_keywords_raw = " , "
  THEN {<<"t","d","s">>}
  ELSE {<<"t","d","s"," ","p","a","y","a","b","l","e">>, <<"i","n","t","e","r","e","s","t">>}

\* The column the Grand Total filter reads, for a header row and a slice
\* width m: the first of the fixed slice, its renamed last column (and any
\* column sharing that label) apart, whose header text contains
\* "particular"; 0 when there is none.
FilterColumnOf(hdr, m) ==
  LET cand == {j \in 1..(m - 1) : HasText(hdr[j], <<"p","a","r","t","i","c","u","l","a","r">>)
                                  /\ hdr[j] # hdr[m]}
  IN  IF cand = {} THEN 0 ELSE CHOOSE j \in cand : \A k \in cand : j <= k

IsGrandTotalCell(cell) == HasText(cell, <<"g","r","a","n","d"," ","t","o","t","a","l">>)
IsTotalCell(cell)      == HasText(cell, <<"t","o","t","a","l">>)

\* What a grid holds, read by position:
\*   usable   whether the sheet is not to be skipped (it has a cell, a
\*            "date" row and a non-empty row below the first "date" row)
\*   first    the first "date" row
\*   hdr      that row's cells, the header
\*   body     the non-empty rows below it
\*   width    min(X, n), the width of the fixed slice
\*   fixed    the fixed-column list after the rename: the first min(X, n)
\*            header labels by position, the last replaced by Ledger_Amount
\*   filter   the column the Grand Total filter reads
\*   matched  the header positions whose lowercased text contains a keyword
\*   retained the body rows the Grand Total filter leaves, top to bottom
View(g) ==
  LET dates == DateRows(g)
  IN  IF AllBlank(g) \/ dates = {}
      THEN [usable |-> FALSE, first |-> NoneIdx, hdr |-> <<>>, body |-> {}, width |-> 0,
            fixed |-> <<>>, filter |-> 0, matched |-> {}, retained |-> <<>>]
      ELSE LET first == CHOOSE i \in dates : \A j \in dates : i <= j
               hdr   == g[first + 1]
               body  == RowsBelow(g, first)
               m     == Min2(fixed_cols, Len(hdr))
               fc    == FilterColumnOf(hdr, m)
           IN  [usable   |-> body # {},
                first    |-> first,
                hdr      |-> hdr,
                body     |-> body,
                width    |-> m,
                fixed    |-> [j \in 1..m |-> IF j = m THEN Ledger_Amount ELSE hdr[j]],
                filter   |-> fc,
                matched  |-> {j \in 1..Len(hdr) :
                                \E kw \in ConfiguredKeywords : HasText(hdr[j], kw)},
                retained |-> SelectSeq([r \in 1..Len(g) |-> r - 1],
                                       LAMBDA i : /\ i \in body
                                                  /\ (fc = 0 \/ ~IsGrandTotalCell(g[i + 1][fc])))]

\* A sheet that is to be skipped.
Unusable(g) == ~View(g).usable

\* <<sheet, row>> of every retained body row, in workbook order.
RECURSIVE ExpectedOrigin(_)
ExpectedOrigin(s) ==
  IF s > Len(workbook) THEN <<>>
  ELSE LET v == View(Grid(s))
       IN  (IF v.usable THEN [k \in 1..Len(v.retained) |-> <<s, v.retained[k]>>] ELSE <<>>)
           \o ExpectedOrigin(s + 1)

Returned == pc = "done" /\ result.kind = "table"

Usable == {s \in 1..Len(workbook) : View(Grid(s)).usable}

FirstUsable == CHOOSE s \in Usable : \A t \in Usable : s <= t

InTable(s, i) == \E k \in 1..Len(result.origin) : result.origin[k] = <<s, i>>

RECURSIVE SumAt(_, _)
SumAt(row, positions) ==
  IF positions = {} THEN 0
  ELSE LET j == CHOOSE x \in positions : TRUE
           v == ToNumeric(row[j])
       IN  (IF v.k = "num" THEN v.n ELSE 0) + SumAt(row, positions \ {j})

LastGrid == workbook[Len(workbook)].grid

----------------------------------------------------------------------------
(* The claims *)

\* C1 (as claimed): whenever a table is returned, its column list is the
\* post-rename fixed-column list of the first non-skipped sheet, then
\* TDS_Amount, then LedgerName, and every row has one value per column.
C1_TemplateLockIn ==
  Returned =>
    /\ result.columns = View(Grid(FirstUsable)).fixed \o <<TDS_Amount, LedgerName>>
    /\ \A k \in 1..Len(result.values) : Len(result.values[k]) = Len(result.columns)

\* C2: for the sheet just read, if its grid is not empty, the header row the
\* code chose is the lowest row whose column-0 cell is "date" (trimmed,
\* lowercased); with no such row the sheet is skipped and no header row is
\* chosen; the rows taken from the sheet all lie strictly below the header row.
C2_HeaderDetection ==
  (last.outcome # "none" /\ ~AllBlank(LastGrid)) =>
    LET dates == DateRows(LastGrid)
    IN  /\ dates = {} => (last.outcome = "no_header" /\ last.h = NoneIdx)
        /\ dates # {} => (last.h \in dates /\ \A j \in dates : last.h <= j)
        /\ last.outcome = "appended" =>
             LET f == all_ledgers[Len(all_ledgers)].frame
             IN  \A r \in 1..Len(f.index) : f.index[r] > last.h

\* A sheet was read whose header row is not row 0 and which has another
\* "date" cell in column 0 further down.
C2_Witness ==
  /\ last.outcome = "appended"
  /\ last.h = 1
  /\ \E j \in DateRows(LastGrid) : j > last.h

C4_TdsAmount ==
  Returned =>
    \A k \in 1..Len(result.origin) :
      LET g       == Grid(result.origin[k][1])
          matched == View(g).matched
          row     == g[result.origin[k][2] + 1]
          tds     == result.values[k][Len(result.values[k]) - 1]
      IN  IF matched = {} THEN tds = Null ELSE tds = NumCell(SumAt(row, matched))

\* C5: for a sheet that gave a fragment, a header label is among the TDS
\* columns found exactly when its lowercased text contains a configured
\* keyword, whatever its position (inside the fixed slice, renamed, or
\* beyond it), and the TDS columns found are header labels of that sheet.
C5_KeywordDiscovery ==
  last.outcome = "appended" =>
    LET v == View(LastGrid)
    IN  /\ \A j \in 1..Len(v.hdr) :
             (\E i \in 1..Len(last.tds_cols) : last.tds_cols[i] = v.hdr[j])
               <=> j \in v.matched
        /\ \A i \in 1..Len(last.tds_cols) :
             \E j \in 1..Len(v.hdr) : v.hdr[j] = last.tds_cols[i]

\* With X = 3, "Non-TDS Charges" in column 4 was found for the keyword "tds".
C5_Witness ==
  /\ last.outcome = "appended"
  /\ fixed_cols = 3
  /\ tds_keywords_raw = " , "
  /\ \E i \in 1..Len(last.tds_cols) : last.tds_cols[i] = StrCell("Non-TDS Charges")
  /\ View(LastGrid).hdr[4] = StrCell("Non-TDS Charges")

\* C6 (as claimed): when process_file ends, it has returned None exactly
\* when every sheet was skipped, and a table in every other case.
C6_NoData ==
  pc \in {"done", "raised"} =>
    /\ result.kind = "None" <=> Usable = {}
    /\ Usable # {} => result.kind = "table"

\* C7: the rows of a returned table are the retained body rows of the
\* non-skipped sheets, one table row each, sheet after sheet in workbook
\* order and top to bottom within a sheet.
C7_RowConservation ==
  Returned =>
    /\ result.origin = ExpectedOrigin(1)
    /\ Len(result.values) = Len(result.origin)

\* A table of two sheets' rows was returned, one body row having been
\* filtered out.
C7_Witness ==
  /\ Returned
  /\ \E k \in 1..Len(result.origin) : result.origin[k][1] = 1
  /\ \E k \in 1..Len(result.origin) : result.origin[k][1] = 2
  /\ \E s \in 1..Len(workbook) :
       LET v == View(Grid(s)) IN v.usable /\ Len(v.retained) < Cardinality(v.body)

\* C8: every row of a returned table has, in each column labelled
\* LedgerName, the name of the sheet the row was read from.
C8_SheetTagging ==
  Returned =>
    /\ result.columns[Len(result.columns)] = LedgerName
    /\ \A k \in 1..Len(result.values) :
         \A c \in 1..Len(result.columns) :
           result.columns[c] = LedgerName =>
             result.values[k][c] = StrCell(workbook[result.origin[k][1]].name)

\* A table with rows of two different sheets was returned.
C8_Witness ==
  /\ Returned
  /\ \E k, l \in 1..Len(result.origin) : result.origin[k][1] # result.origin[l][1]

\* C9: a step that reads a sheet to be skipped (all empty, no "date" row, no
\* non-empty row below it) raises nothing and leaves the template and the
\* fragments as they were; the template changes only from unset to set, and
\* only at a sheet that is not skipped while no fragment was collected yet
\* and every sheet before it was skipped (the first such sheet), which does
\* set it when it gives a fragment; once set it never changes.
C9_SkipAndLockOnce ==
  [][ /\ (Len(workbook') = Len(workbook) + 1 /\ Unusable(workbook'[Len(workbook')].grid)) =>
           /\ template_cols' = template_cols
           /\ all_ledgers' = all_ledgers
           /\ pc' = "loop"
      /\ template_cols.locked => template_cols' = template_cols
      /\ template_cols' # template_cols =>
           /\ ~template_cols.locked /\ template_cols'.locked
           /\ all_ledgers = <<>>
           /\ Len(workbook') = Len(workbook) + 1
           /\ ~Unusable(workbook'[Len(workbook')].grid)
           /\ \A s \in 1..Len(workbook) : Unusable(workbook[s].grid)
      /\ Len(all_ledgers') = Len(all_ledgers) + 1 => template_cols'.locked
    ]_vars

\* A first sheet was skipped and the second sheet, the first not skipped,
\* set the template.
C9_Witness ==
  /\ Len(workbook) = 2
  /\ Unusable(Grid(1))
  /\ last.outcome = "appended"
  /\ template_cols.locked
  /\ Len(all_ledgers) = 1

\* C10 (as claimed): process_file never fails, and for a sheet that is not
\* skipped the fixed slice after the rename is the first min(X, n) header
\* labels by position, the last replaced by Ledger_Amount, the others kept.
C10_SliceAndRename ==
  /\ pc # "raised"
  /\ last.outcome \in {"appended", "raised"} => last.base_columns = View(LastGrid).fixed

====
